---- MODULE Spec2Model ----
(***************************************************************************)
(* Model of the ffonons documentation site's glue code:                    *)
(*   - the Identifier Resolver (load of the per-identifier route, in its   *)
(*     substring-scan form and in its exact-key form),                     *)
(*   - the Catalog Page (the list of links on the root page),              *)
(*   - the layout's command-palette routes.                                *)
(* A JavaScript string is a sequence of one-character strings, so that     *)
(* includes, split, slice, join and toLowerCase are computed, not assumed. *)
(***************************************************************************)
EXTENDS Integers, Sequences, FiniteSets, TLC

VARIABLES
    figFiles,   \* the files below $figs, as the keys import.meta.glob gives them, in enumeration order
    pageFiles,  \* the files below the routes directory, as the layout's glob keys
    browser,    \* $app/environment's browser flag
    pc,         \* where the page load / render is
    deployed,   \* which form of the per-identifier load serves the route: "scan" or "exact"
    slug,       \* params.slug of the per-identifier route
    keys,       \* load: the matched keys
    loaders,    \* load: the state of each matched loader's promise
    order,      \* load: the indices of the loaders in the order they fulfilled
    result,     \* what load returned (or that it threw)
    list,       \* the catalog's rendered <li> entries
    actions,    \* the layout's command-palette actions
    base,       \* $app/paths' base
    location    \* the path the browser was last sent to (a link followed, a goto)

vars == <<figFiles, pageFiles, browser, pc, deployed, slug, keys, loaders, order,
          result, list, actions, base, location>>

(***************************************************************************)
(* Bounds of the model.                                                    *)
(***************************************************************************)
\* the most files a listing of the figures directory holds
MaxFigs == 3
\* the most files a listing of the routes directory holds
MaxPages == 3

(***************************************************************************)
(* JavaScript values and string functions.                                 *)
(***************************************************************************)
\* the value undefined (no string: a string is a sequence of characters)
Undefined == <<"undefined">>

\* String(x) as a template literal applies it
ToStr(x) == IF x = Undefined THEN <<"u", "n", "d", "e", "f", "i", "n", "e", "d">> ELSE x

StartsWith(s, p) == Len(p) <= Len(s) /\ SubSeq(s, 1, Len(p)) = p

EndsWith(s, p) == Len(p) <= Len(s) /\ SubSeq(s, Len(s) - Len(p) + 1, Len(s)) = p

RECURSIVE IncludesFrom(_, _, _)
IncludesFrom(s, sub, i) ==
    IF i + Len(sub) - 1 > Len(s) THEN FALSE
    ELSE IF SubSeq(s, i, i + Len(sub) - 1) = sub THEN TRUE
    ELSE IncludesFrom(s, sub, i + 1)

\* String.prototype.includes
Includes(s, sub) == IncludesFrom(s, sub, 1)

RECURSIVE Split(_, _)
\* String.prototype.split on a one-character separator
Split(s, sep) ==
    IF \A i \in 1..Len(s) : s[i] # sep THEN <<s>>
    ELSE LET i == CHOOSE j \in 1..Len(s) : s[j] = sep /\ \A k \in 1..(j - 1) : s[k] # sep
         IN  <<SubSeq(s, 1, i - 1)>> \o Split(SubSeq(s, i + 1, Len(s)), sep)

\* Array.prototype.at, index counted from 0, a negative one from the end
At(arr, idx) ==
    LET k == IF idx < 0 THEN Len(arr) + idx ELSE idx
    IN  IF k < 0 \/ k >= Len(arr) THEN Undefined ELSE arr[k + 1]

\* Array.prototype.slice(start, end), indices counted from 0
Slice(arr, start, end) ==
    LET n == Len(arr)
        rel(x) == IF x < 0 THEN (IF n + x < 0 THEN 0 ELSE n + x) ELSE (IF x > n THEN n ELSE x)
    IN  SubSeq(arr, rel(start) + 1, rel(end))

RECURSIVE Join(_, _)
\* Array.prototype.join
Join(arr, sep) ==
    IF Len(arr) = 0 THEN <<>>
    ELSE IF Len(arr) = 1 THEN arr[1]
    ELSE arr[1] \o sep \o Join(Tail(arr), sep)

LowerOf(c) ==
    CASE c = "A" -> "a" [] c = "B" -> "b" [] c = "C" -> "c" [] c = "D" -> "d"
      [] c = "E" -> "e" [] c = "F" -> "f" [] c = "G" -> "g" [] c = "H" -> "h"
      [] c = "I" -> "i" [] c = "J" -> "j" [] c = "K" -> "k" [] c = "L" -> "l"
      [] c = "M" -> "m" [] c = "N" -> "n" [] c = "O" -> "o" [] c = "P" -> "p"
      [] c = "Q" -> "q" [] c = "R" -> "r" [] c = "S" -> "s" [] c = "T" -> "t"
      [] c = "U" -> "u" [] c = "V" -> "v" [] c = "W" -> "w" [] c = "X" -> "x"
      [] c = "Y" -> "y" [] c = "Z" -> "z" [] OTHER -> c

\* String.prototype.toLowerCase
ToLowerCase(s) == [i \in 1..Len(s) |-> LowerOf(s[i])]

\* the part of s between a prefix and a suffix it has
Between(s, p, q) == SubSeq(s, Len(p) + 1, Len(s) - Len(q))

\* a glob  <p>*<mid>*<q>  whose stars stay inside one path segment
StarGlob(s, p, mid, q) ==
    /\ StartsWith(s, p)
    /\ EndsWith(s, q)
    /\ Len(p) + Len(q) <= Len(s)
    /\ ~Includes(Between(s, p, q), <<"/">>)
    /\ Includes(Between(s, p, q), mid)

\* the module a figure file default-exports
Component(path) == [kind |-> "component", path |-> path]

\* the value of a missing key of a glob's record
UndefinedFig == [kind |-> "undefined"]

(***************************************************************************)
(* The per-identifier route, mp-[slug].                                    *)
(***************************************************************************)
\* the route mp-[slug] matched against a path: params.slug, or Undefined when
\* the path is no page of this route
RouteParam(path) ==
    IF /\ StartsWith(path, <<"/", "m", "p", "-">>)
       /\ Len(path) > Len(<<"/", "m", "p", "-">>)
       /\ ~Includes(SubSeq(path, 2, Len(path)), <<"/">>)
    THEN SubSeq(path, Len(<<"/", "m", "p", "-">>) + 1, Len(path))
    ELSE Undefined

\* a visitor opens /mp-<s>
Visit(s) ==
    /\ pc = "idle"
    /\ location' = <<"/", "m", "p", "-">> \o s
    /\ pc' = "route"
    /\ UNCHANGED <<figFiles, pageFiles, browser, deployed, slug, keys, loaders, order,
                   result, list, actions, base>>

(***************************************************************************)
(* Identifier Resolver, substring scan (load of the per-identifier route). *)
(***************************************************************************)
\* import.meta.glob(`$figs/mp-*.svelte`): the keys, in enumeration order
GlobMpFigs(files) ==
    SelectSeq(files, LAMBDA f : StarGlob(f, <<"/", "s", "r", "c", "/", "f", "i", "g", "s", "/", "m", "p", "-">>, <<>>, <<".", "s", "v", "e", "l", "t", "e">>))

PathMatchesToken(path, s) ==
    Includes(path, <<"/", "m", "p", "-">> \o ToStr(s) \o <<"-">>)

\* path.includes(`mp-${params.slug}`)
PathMatches(path, s) == Includes(path, <<"m", "p", "-">> \o ToStr(s))

\* Object.keys(all).filter(...): SelectSeq is Array.prototype.filter
MatchedKeys(files, s) == SelectSeq(GlobMpFigs(files), LAMBDA path : PathMatches(path, s))

\* keys.map((key) => all[key]()): every loader is called, none awaited yet
StartLoaders(ks) == [i \in 1..Len(ks) |-> "pending"]

PromiseAllInSettleOrder(ks, ls, ord) ==
    IF \E i \in 1..Len(ls) : ls[i] = "rejected" THEN [state |-> "rejected"]
    ELSE IF \A i \in 1..Len(ls) : ls[i] = "fulfilled"
         THEN [state |-> "fulfilled", value |-> [n \in 1..Len(ord) |-> Component(ks[ord[n]])]]
         ELSE [state |-> "pending"]

PromiseAllSettledOnly(ks, ls, ord) ==
    IF \E i \in 1..Len(ls) : ls[i] = "pending" THEN [state |-> "pending"]
    ELSE LET ok == SelectSeq([i \in 1..Len(ks) |-> i], LAMBDA i : ls[i] = "fulfilled")
         IN  [state |-> "fulfilled", value |-> [n \in 1..Len(ok) |-> Component(ks[ok[n]])]]

\* Promise.all over the loaders' promises: rejected once one of them is, fulfilled
\* once all are, with each value at its key's index (ord, the order in which the
\* loaders fulfilled, plays no part)
PromiseAll(ks, ls, ord) ==
    IF \E i \in 1..Len(ls) : ls[i] = "rejected" THEN [state |-> "rejected"]
    ELSE IF \A i \in 1..Len(ls) : ls[i] = "fulfilled"
         THEN [state |-> "fulfilled", value |-> [i \in 1..Len(ks) |-> Component(ks[i])]]
         ELSE [state |-> "pending"]

\* JavaScript truthiness of an array: every object is truthy, the empty array too
Truthy(arr) == TRUE

\* `if (!figs) return { status: 404 }` and `return { figs }`
LoadResult(figs) ==
    IF ~Truthy(figs) THEN [kind |-> "status", status |-> 404]
    ELSE [kind |-> "data", figs |-> figs]

NoResult == [kind |-> "none"]

\* load, up to its await: the keys are filtered and every loader is started
Load ==
    /\ pc = "route"
    /\ deployed = "scan"
    /\ RouteParam(location) # Undefined
    /\ slug' = RouteParam(location)
    /\ keys' = MatchedKeys(figFiles, slug')
    /\ loaders' = StartLoaders(keys')
    /\ pc' = "await"
    /\ UNCHANGED <<figFiles, pageFiles, browser, deployed, order, result, list,
                   actions, base, location>>

\* a started loader's import succeeds
LoaderResolve(i) ==
    /\ pc \in {"await", "done"}
    /\ i \in 1..Len(loaders)
    /\ loaders[i] = "pending"
    /\ loaders' = [loaders EXCEPT ![i] = "fulfilled"]
    /\ order' = Append(order, i)
    /\ UNCHANGED <<figFiles, pageFiles, browser, pc, deployed, slug, keys, result, list,
                   actions, base, location>>

\* a started loader's import fails
LoaderReject(i) ==
    /\ pc \in {"await", "done"}
    /\ i \in 1..Len(loaders)
    /\ loaders[i] = "pending"
    /\ loaders' = [loaders EXCEPT ![i] = "rejected"]
    /\ UNCHANGED <<figFiles, pageFiles, browser, pc, deployed, slug, keys, order, result,
                   list, actions, base, location>>

\* the continuation of `await Promise.all(...)` when it fulfils
LoadReturn ==
    /\ pc = "await"
    /\ PromiseAll(keys, loaders, order).state = "fulfilled"
    /\ result' = LoadResult(PromiseAll(keys, loaders, order).value)
    /\ pc' = "done"
    /\ UNCHANGED <<figFiles, pageFiles, browser, deployed, slug, keys, loaders, order,
                   list, actions, base, location>>

\* `await Promise.all(...)` throws when it rejects: load rejects
LoadThrow ==
    /\ pc = "await"
    /\ PromiseAll(keys, loaders, order).state = "rejected"
    /\ result' = [kind |-> "error"]
    /\ pc' = "done"
    /\ UNCHANGED <<figFiles, pageFiles, browser, deployed, slug, keys, loaders, order,
                   list, actions, base, location>>

(***************************************************************************)
(* Identifier Resolver, exact key (load of src/routes/mp-[slug]/+page.ts). *)
(***************************************************************************)
\* import.meta.glob(`$figs/mace-mp0-phonondb/*-dos-*.svelte`, eager): the keys
ph_dos_figs(files) ==
    SelectSeq(files, LAMBDA f :
        StarGlob(f, <<"/", "s", "r", "c", "/", "f", "i", "g", "s", "/", "m", "a", "c", "e", "-", "m", "p", "0", "-", "p", "h", "o", "n", "o", "n", "d", "b", "/">>, <<"-", "d", "o", "s", "-">>, <<".", "s", "v", "e", "l", "t", "e">>))

\* `/src/figs/mace-mp0-phonondb/mp-${params.slug}-dos-pbe-vs-mace-y7uhwpje.svelte`
DosKey(s) ==
    <<"/", "s", "r", "c", "/", "f", "i", "g", "s", "/", "m", "a", "c", "e", "-", "m", "p", "0", "-", "p", "h", "o", "n", "o", "n", "d", "b", "/", "m", "p", "-">> \o ToStr(s) \o <<"-", "d", "o", "s", "-", "p", "b", "e", "-", "v", "s", "-", "m", "a", "c", "e", "-", "y", "7", "u", "h", "w", "p", "j", "e", ".", "s", "v", "e", "l", "t", "e">>

DosFigBySubstring(files, s) ==
    LET ks == SelectSeq(ph_dos_figs(files), LAMBDA k : Includes(k, <<"m", "p", "-">> \o ToStr(s)))
    IN  IF Len(ks) > 0 THEN Component(ks[1]) ELSE UndefinedFig

\* ph_dos_figs[key]: the module under the key, undefined when there is none
DosFig(files, s) ==
    IF \E i \in 1..Len(ph_dos_figs(files)) : ph_dos_figs(files)[i] = DosKey(s)
    THEN Component(DosKey(s))
    ELSE UndefinedFig

\* load: the await is of a value, not of a promise, and nothing interleaves
LoadDos ==
    /\ pc = "route"
    /\ deployed = "exact"
    /\ RouteParam(location) # Undefined
    /\ slug' = RouteParam(location)
    /\ result' = [kind |-> "data", DosFig |-> DosFig(figFiles, slug')]
    /\ pc' = "done"
    /\ UNCHANGED <<figFiles, pageFiles, browser, deployed, keys, loaders, order, list,
                   actions, base, location>>

(***************************************************************************)
(* Catalog Page (the list of src/routes/+page.svelte).                     *)
(***************************************************************************)
\* import.meta.glob(`$figs/mp-*-bs-dos-*.svelte`, eager): the keys
GlobBsDosFigs(files) ==
    SelectSeq(files, LAMBDA f : StarGlob(f, <<"/", "s", "r", "c", "/", "f", "i", "g", "s", "/", "m", "p", "-">>, <<"-", "b", "s", "-", "d", "o", "s", "-">>, <<".", "s", "v", "e", "l", "t", "e">>))

\* key.split(`/`).at(-1)?.split(`-`).at(1)
IdToken(key) ==
    LET last == At(Split(key, "/"), -1)
    IN  IF last = Undefined THEN Undefined ELSE At(Split(last, "-"), 1)

\* `mp-${...}`
mp_id(key) == <<"m", "p", "-">> \o ToStr(IdToken(key))

\* <li><a href="/{mp_id}">{mp_id}</a></li>
Entry(key) == [text |-> mp_id(key), href |-> <<"/">> \o mp_id(key)]

CatalogListUnguarded(files, inBrowser) ==
    [i \in 1..Len(GlobBsDosFigs(files)) |-> Entry(GlobBsDosFigs(files)[i])]

\* {#if browser} {#each Object.keys(figs) as key} ... {/each} {/if}
CatalogList(files, inBrowser) ==
    IF inBrowser
    THEN [i \in 1..Len(GlobBsDosFigs(files)) |-> Entry(GlobBsDosFigs(files)[i])]
    ELSE <<>>

\* the root page renders
RenderCatalog ==
    /\ pc = "idle"
    /\ list' = CatalogList(figFiles, browser)
    /\ pc' = "catalog"
    /\ UNCHANGED <<figFiles, pageFiles, browser, deployed, slug, keys, loaders, order,
                   result, actions, base, location>>

\* the visitor follows the i-th link of the list
Click(i) ==
    /\ pc = "catalog"
    /\ i \in 1..Len(list)
    /\ location' = list[i].href
    /\ pc' = "route"
    /\ UNCHANGED <<figFiles, pageFiles, browser, deployed, slug, keys, loaders, order,
                   result, list, actions, base>>

(***************************************************************************)
(* The layout's command palette.                                           *)
(***************************************************************************)
\* Object.keys(import.meta.glob(`./**/+page.{svx,svelte,md}`))
GlobPages(files) ==
    SelectSeq(files, LAMBDA f :
        /\ StartsWith(f, <<".", "/">>)
        /\ \/ EndsWith(f, <<"/", "+", "p", "a", "g", "e", ".", "s", "v", "x">>)
           \/ EndsWith(f, <<"/", "+", "p", "a", "g", "e", ".", "s", "v", "e", "l", "t", "e">>)
           \/ EndsWith(f, <<"/", "+", "p", "a", "g", "e", ".", "m", "d">>))

\* `/` + parts.slice(1, -1).join(`/`)
RouteOf(filename) == <<"/">> \o Join(Slice(Split(filename, "/"), 1, -1), <<"/">>)

file_routes_any_bracket(files) ==
    LET kept == SelectSeq(GlobPages(files), LAMBDA key : ~Includes(key, <<"[">>))
    IN  [i \in 1..Len(kept) |-> RouteOf(kept[i])]

\* file_routes: the keys without "/[", each mapped to its route
file_routes(files) ==
    LET kept == SelectSeq(GlobPages(files), LAMBDA key : ~Includes(key, <<"/", "[">>))
    IN  [i \in 1..Len(kept) |-> RouteOf(kept[i])]

\* actions: the label, and the path its action hands to goto
Actions(files, b) ==
    [i \in 1..Len(file_routes(files)) |->
        [label |-> file_routes(files)[i],
         target |-> b \o ToLowerCase(file_routes(files)[i])]]

\* the layout's script runs
LayoutInit ==
    /\ pc = "idle"
    /\ actions' = Actions(pageFiles, base)
    /\ pc' = "layout"
    /\ UNCHANGED <<figFiles, pageFiles, browser, deployed, slug, keys, loaders, order,
                   result, list, base, location>>

\* the visitor picks the i-th action of the palette
Invoke(i) ==
    /\ pc = "layout"
    /\ i \in 1..Len(actions)
    /\ location' = actions[i].target
    /\ pc' = "gone"
    /\ UNCHANGED <<figFiles, pageFiles, browser, deployed, slug, keys, loaders, order,
                   result, list, actions, base>>

(***************************************************************************)
(* Inputs.                                                                 *)
(***************************************************************************)
\* identifiers: "1" is a proper prefix of "12"
Ids == {<<"1">>, <<"1", "2">>, <<"5", "5">>, <<"2", "6", "9", "1">>}

\* requested identifiers: those of the files and one no file has
Slugs == Ids \cup {<<"9">>}

RECURSIVE Listings(_, _)
\* the sequences of at most n distinct elements of S
Listings(S, n) ==
    IF n = 0 THEN {<<>>}
    ELSE LET shorter == Listings(S, n - 1)
         IN  shorter \cup
             {Append(l, x) : l \in {m \in shorter : Len(m) = n - 1}, x \in S}

Distinct(l) == \A i, j \in 1..Len(l) : i # j => l[i] # l[j]

DirListings(S, n) == {l \in Listings(S, n) : Distinct(l)}

BsDosFile(id, tag) == <<"/", "s", "r", "c", "/", "f", "i", "g", "s", "/", "m", "p", "-">> \o id \o <<"-", "b", "s", "-", "d", "o", "s", "-">> \o tag \o <<".", "s", "v", "e", "l", "t", "e">>

\* figure files the substring scan reads, and some its glob leaves out
ScanFiles ==
    {BsDosFile(id, tag) : id \in Ids, tag \in {<<"a">>, <<"b">>}}
      \cup {<<"/", "s", "r", "c", "/", "f", "i", "g", "s", "/", "m", "p", "-", "5", "5", "-", "d", "o", "s", "-", "c", "o", "m", "p", "-", "1", ".", "s", "v", "e", "l", "t", "e">>,
            <<"/", "s", "r", "c", "/", "f", "i", "g", "s", "/", "m", "e", "t", "r", "i", "c", "s", "-", "t", "a", "b", "l", "e", ".", "s", "v", "e", "l", "t", "e">>,
            <<"/", "s", "r", "c", "/", "f", "i", "g", "s", "/", "m", "a", "c", "e", "-", "m", "p", "0", "-", "p", "h", "o", "n", "o", "n", "d", "b", "/", "m", "p", "-", "1", "-", "d", "o", "s", "-", "p", "b", "e", "-", "v", "s", "-", "m", "a", "c", "e", "-", "y", "7", "u", "h", "w", "p", "j", "e", ".", "s", "v", "e", "l", "t", "e">>}

\* figure files the exact-key lookup reads, and some its glob leaves out
DosFiles ==
    {DosKey(id) : id \in Ids}
      \cup {<<"/", "s", "r", "c", "/", "f", "i", "g", "s", "/", "m", "a", "c", "e", "-", "m", "p", "0", "-", "p", "h", "o", "n", "o", "n", "d", "b", "/", "m", "p", "-", "1", "-", "d", "o", "s", "-", "p", "b", "e", "-", "v", "s", "-", "c", "h", "g", "n", "e", "t", ".", "s", "v", "e", "l", "t", "e">>,
            <<"/", "s", "r", "c", "/", "f", "i", "g", "s", "/", "m", "a", "c", "e", "-", "m", "p", "0", "-", "p", "h", "o", "n", "o", "n", "d", "b", "/", "m", "p", "-", "1", "2", "-", "b", "s", "-", "p", "b", "e", "-", "v", "s", "-", "m", "a", "c", "e", "-", "y", "7", "u", "h", "w", "p", "j", "e", ".", "s", "v", "e", "l", "t", "e">>,
            <<"/", "s", "r", "c", "/", "f", "i", "g", "s", "/", "m", "p", "-", "5", "5", "-", "d", "o", "s", "-", "p", "b", "e", "-", "v", "s", "-", "m", "a", "c", "e", "-", "y", "7", "u", "h", "w", "p", "j", "e", ".", "s", "v", "e", "l", "t", "e">>}

\* figure files of the catalog, and the DOS figures of two of their identifiers
CatalogFiles ==
    {BsDosFile(id, tag) : id \in Ids, tag \in {<<"a">>, <<"b">>}}
      \cup {DosKey(<<"1">>), DosKey(<<"2", "6", "9", "1">>), <<"/", "s", "r", "c", "/", "f", "i", "g", "s", "/", "m", "p", "-", "5", "5", "-", "d", "o", "s", "-", "c", "o", "m", "p", "-", "1", ".", "s", "v", "e", "l", "t", "e">>}

\* files of the routes directory
PageFiles ==
    {<<".", "/", "+", "p", "a", "g", "e", ".", "s", "v", "e", "l", "t", "e">>, <<".", "/", "a", "b", "o", "u", "t", "/", "+", "p", "a", "g", "e", ".", "m", "d">>, <<".", "/", "A", "p", "i", "/", "D", "o", "c", "s", "/", "+", "p", "a", "g", "e", ".", "s", "v", "x">>,
     <<".", "/", "m", "p", "-", "[", "s", "l", "u", "g", "]", "/", "+", "p", "a", "g", "e", ".", "s", "v", "e", "l", "t", "e">>, <<".", "/", "[", "s", "l", "u", "g", "]", "/", "+", "p", "a", "g", "e", ".", "s", "v", "e", "l", "t", "e">>,
     <<".", "/", "b", "l", "o", "g", "/", "[", "i", "d", "]", "/", "e", "d", "i", "t", "/", "+", "p", "a", "g", "e", ".", "s", "v", "e", "l", "t", "e">>, <<".", "/", "+", "l", "a", "y", "o", "u", "t", ".", "s", "v", "e", "l", "t", "e">>, <<".", "/", "a", "b", "o", "u", "t", "/", "+", "p", "a", "g", "e", ".", "t", "s">>}

Bases == {<<>>, <<"/", "f", "f", "o", "n", "o", "n", "s">>}

InitWith(figs, pages, forms, flags, bases) ==
    /\ figFiles \in figs
    /\ pageFiles \in pages
    /\ browser \in flags
    /\ deployed \in forms
    /\ base \in bases
    /\ pc = "idle"
    /\ slug = Undefined
    /\ keys = <<>>
    /\ loaders = <<>>
    /\ order = <<>>
    /\ result = NoResult
    /\ list = <<>>
    /\ actions = <<>>
    /\ location = <<>>

(***************************************************************************)
(* Spec: the substring-scan resolver serves a visit of /mp-<slug>.         *)
(***************************************************************************)
Init == InitWith(DirListings(ScanFiles, MaxFigs), {<<>>}, {"scan"}, {TRUE}, {<<>>})

Next ==
    \/ \E s \in Slugs : Visit(s)
    \/ Load
    \/ \E i \in 1..Len(loaders) : LoaderResolve(i)
    \/ \E i \in 1..Len(loaders) : LoaderReject(i)
    \/ LoadReturn
    \/ LoadThrow

Spec == Init /\ [][Next]_vars

(***************************************************************************)
(* SpecDos: the exact-key resolver serves a visit of /mp-<slug>.           *)
(***************************************************************************)
InitDos == InitWith(DirListings(DosFiles, MaxFigs), {<<>>}, {"exact"}, {TRUE}, {<<>>})

NextDos ==
    \/ \E s \in Slugs : Visit(s)
    \/ LoadDos

SpecDos == InitDos /\ [][NextDos]_vars

(***************************************************************************)
(* SpecCatalog: the root page renders, the visitor follows one of its      *)
(* links, and the per-identifier route's load (in either form) serves it.  *)
(***************************************************************************)
InitCatalog ==
    InitWith(DirListings(CatalogFiles, MaxFigs), {<<>>}, {"scan", "exact"}, BOOLEAN, {<<>>})

NextCatalog ==
    \/ RenderCatalog
    \/ \E i \in 1..Len(list) : Click(i)
    \/ Load
    \/ \E i \in 1..Len(loaders) : LoaderResolve(i)
    \/ \E i \in 1..Len(loaders) : LoaderReject(i)
    \/ LoadReturn
    \/ LoadThrow
    \/ LoadDos

SpecCatalog == InitCatalog /\ [][NextCatalog]_vars

(***************************************************************************)
(* SpecLayout: the layout derives the palette's actions, one is picked.    *)
(***************************************************************************)
InitLayout == InitWith({<<>>}, DirListings(PageFiles, MaxPages), {"scan"}, {TRUE}, Bases)

NextLayout ==
    \/ LayoutInit
    \/ \E i \in 1..Len(actions) : Invoke(i)

SpecLayout == InitLayout /\ [][NextLayout]_vars

(***************************************************************************)
(* What the claims are stated with.                                        *)
(***************************************************************************)
\* sub occurs in s
Contains(s, sub) ==
    \E i \in 1..(Len(s) - Len(sub) + 1) : SubSeq(s, i, i + Len(sub) - 1) = sub

\* the n-th smallest number of a set of numbers
NthOf(S, n) == CHOOSE x \in S : Cardinality({y \in S : y < x}) = n - 1

Range(l) == {l[i] : i \in 1..Len(l)}

RECURSIVE FirstOccurrences(_)
\* l without the repetitions of its elements
FirstOccurrences(l) ==
    IF Len(l) = 0 THEN <<>>
    ELSE LET init == FirstOccurrences(SubSeq(l, 1, Len(l) - 1))
         IN  IF l[Len(l)] \in Range(init) THEN init ELSE Append(init, l[Len(l)])

Returned == pc = "done" /\ result.kind = "data"

\* the indices, in the scan's artifact set, of the paths that contain mp-<slug>
MatchingIndices ==
    {i \in 1..Len(GlobMpFigs(figFiles)) : Contains(GlobMpFigs(figFiles)[i], <<"m", "p", "-">> \o slug)}

\* C1: when the substring scan's load returns, figs holds the content of exactly
\* the artifacts whose path contains "mp-<slug>", one per path, in the order the
\* artifact paths are enumerated in.
C1_LoadReturnsExactlyTheMatching ==
    (Returned /\ deployed = "scan") =>
        /\ Len(result.figs) = Cardinality(MatchingIndices)
        /\ \A n \in 1..Len(result.figs) :
              result.figs[n] = Component(GlobMpFigs(figFiles)[NthOf(MatchingIndices, n)])

\* load returned two figures and left an artifact of the set out
C1_Witness ==
    /\ Returned
    /\ deployed = "scan"
    /\ Len(result.figs) = 2
    /\ Len(GlobMpFigs(figFiles)) = 3

\* C2: when no artifact path matches the requested identifier, load gives the
\* caller a 404 status and not a result with an empty figs.
C2_NoMatchGives404 ==
    (pc = "done" /\ deployed = "scan" /\ keys = <<>>) =>
        (result.kind = "status" /\ result.status = 404)

\* C3: the load that serves a link of the catalog returns something: figs is not
\* empty (substring scan), DosFig is defined (exact key).
C3_CatalogLinksResolve ==
    (Returned /\ location \in {list[i].href : i \in 1..Len(list)}) =>
        /\ deployed = "scan" => Len(result.figs) > 0
        /\ deployed = "exact" => result.DosFig # UndefinedFig

\* C4: the rendered list is the identifiers "mp-<second hyphen token of the last
\* path segment>" of the catalog's artifacts, each once, in order of first
\* occurrence.
C4_CatalogListsEachIdOnce ==
    (pc = "catalog" /\ browser) =>
        [i \in 1..Len(list) |-> list[i].text] =
            FirstOccurrences([i \in 1..Len(GlobBsDosFigs(figFiles)) |->
                                 mp_id(GlobBsDosFigs(figFiles)[i])])

\* C5: every artifact the substring scan returns has the requested identifier as
\* its identifier token (the match is delimiter-bounded).
C5_MatchIsDelimiterBounded ==
    (Returned /\ deployed = "scan") =>
        \A n \in 1..Len(result.figs) : IdToken(result.figs[n].path) = slug

\* C6: the exact-key load returns the artifact stored under
\* /src/figs/mace-mp0-phonondb/mp-<slug>-dos-pbe-vs-mace-y7uhwpje.svelte when there
\* is one and an undefined DosFig when there is none: one artifact at most, and
\* none stored under another key.
C6_ExactKeyOrNotFound ==
    (pc = "done" /\ deployed = "exact") =>
        /\ result.kind = "data"
        /\ result.DosFig =
              IF DosKey(slug) \in Range(figFiles) THEN Component(DosKey(slug))
              ELSE UndefinedFig

\* the key is there, and before it another DOS figure whose path has mp-<slug>
C6_Witness ==
    /\ pc = "done"
    /\ deployed = "exact"
    /\ result.DosFig = Component(DosKey(slug))
    /\ Len(figFiles) >= 2
    /\ figFiles[1] # DosKey(slug)
    /\ Contains(figFiles[1], <<"/", "m", "a", "c", "e", "-", "m", "p", "0", "-", "p", "h", "o", "n", "o", "n", "d", "b", "/", "m", "p", "-">> \o slug)

\* C7: a matched loader that fails makes load fail; a figs is returned only when
\* every matched loader succeeded, and then it holds all of them.
C7_NoPartialSuccess ==
    /\ (pc = "done" /\ deployed = "scan"
          /\ \E i \in 1..Len(loaders) : loaders[i] = "rejected") => result.kind = "error"
    /\ (Returned /\ deployed = "scan") =>
          /\ \A i \in 1..Len(loaders) : loaders[i] = "fulfilled"
          /\ Len(result.figs) = Len(keys)

\* load failed although a loader had succeeded before the failing one settled
C7_Witness ==
    /\ pc = "done"
    /\ result.kind = "error"
    /\ Len(order) >= 1
    /\ \E i \in 1..Len(loaders) : loaders[i] = "rejected"
    /\ \E i \in 1..Len(loaders) : loaders[i] = "pending"

\* C8: once load awaits, every matched loader has been started; figs is returned
\* only after all of them completed, and whatever order they completed in, figs
\* is as long as the matched keys and its i-th element is the i-th key's content.
C8_JoinAfterAllInKeyOrder ==
    /\ (pc \in {"await", "done"} /\ deployed = "scan") =>
          /\ Len(loaders) = Len(keys)
          /\ \A i \in 1..Len(loaders) : loaders[i] \in {"pending", "fulfilled", "rejected"}
    /\ (Returned /\ deployed = "scan") =>
          /\ \A i \in 1..Len(loaders) : loaders[i] = "fulfilled"
          /\ Len(result.figs) = Len(keys)
          /\ \A i \in 1..Len(keys) : result.figs[i] = Component(keys[i])

\* figs was returned after the last key's loader completed first
C8_Witness ==
    /\ Returned
    /\ Len(keys) >= 2
    /\ order[1] = Len(keys)

\* C9: whatever the artifacts are, once the root page has rendered, the list has
\* no entry without the browser flag, and with it one entry for each artifact of
\* the catalog.
C9_ListOnlyInBrowser ==
    /\ (pc # "idle" /\ ~browser) => list = <<>>
    /\ (pc # "idle" /\ browser) => Len(list) = Len(GlobBsDosFigs(figFiles))

\* rendered outside the browser with artifacts to list
C9_Witness ==
    /\ pc = "catalog"
    /\ ~browser
    /\ Len(GlobBsDosFigs(figFiles)) >= 2

\* the indices, among the page files, of those without "/[" in their path
UnbracketedPages ==
    {i \in 1..Len(GlobPages(pageFiles)) : ~Contains(GlobPages(pageFiles)[i], <<"/", "[">>)}

\* "/" and the directories of a page file's path: what lies between its leading
\* "." and the "/" before its file name
DirectoryLabel(f) ==
    LET last == CHOOSE i \in 1..Len(f) : f[i] = "/" /\ \A j \in (i + 1)..Len(f) : f[j] # "/"
    IN  IF last = 2 THEN <<"/">> ELSE SubSeq(f, 2, last - 1)

====
